---- MODULE Spec2Model ----
(***************************************************************************)
(* A model of lookup.py, the command-line query tool over HyperionDev.db.  *)
(*                                                                         *)
(* Text is a sequence of one-character strings, so that the string         *)
(* operations of the program (strip, lower, upper, capitalize, split, int, *)
(* str) are computed and not assumed.                                      *)
(***************************************************************************)
EXTENDS Integers, Sequences, FiniteSets, TLC

VARIABLES pc, ret, flow, conn, db, data, files, nWrites, exitStatus, out

vars == <<pc, ret, flow, conn, db, data, files, nWrites, exitStatus, out>>

(***************************************************************************)
(* Bounds of the model.                                                    *)
(***************************************************************************)
\* The operator starts a lookup only while fewer than MaxWrites files have been
\* written in the session; after that only mistyped selections and the exit remain.
MaxWrites == 1
\* A result handed directly to offer_to_store holds at most MaxRecords elements.
MaxRecords == 2

(***************************************************************************)
(* Python's string operations.                                             *)
(***************************************************************************)
UpperLetters == <<"A","B","C","D","E","F","G","H","I","J","K","L","M",
                  "N","O","P","Q","R","S","T","U","V","W","X","Y","Z">>
LowerLetters == <<"a","b","c","d","e","f","g","h","i","j","k","l","m",
                  "n","o","p","q","r","s","t","u","v","w","x","y","z">>
DigitChars == <<"0","1","2","3","4","5","6","7","8","9">>

IndexIn(c, s) == IF \E i \in 1..Len(s) : s[i] = c
                 THEN CHOOSE i \in 1..Len(s) : s[i] = c
                 ELSE 0

IsSpace(c) == c = " "

lower_char(c) == IF IndexIn(c, UpperLetters) > 0
                 THEN LowerLetters[IndexIn(c, UpperLetters)]
                 ELSE c

upper_char(c) == IF IndexIn(c, LowerLetters) > 0
                 THEN UpperLetters[IndexIn(c, LowerLetters)]
                 ELSE c

\* str.lower()
lower(s) == [i \in 1..Len(s) |-> lower_char(s[i])]

\* str.upper()
upper(s) == [i \in 1..Len(s) |-> upper_char(s[i])]

\* str.capitalize(): the first character upper-cased, the rest lower-cased
capitalize(s) == IF s = <<>> THEN s
                 ELSE <<upper_char(s[1])>> \o lower(Tail(s))

RECURSIVE lstrip(_)
lstrip(s) == IF s # <<>> /\ IsSpace(s[1]) THEN lstrip(Tail(s)) ELSE s

RECURSIVE rstrip(_)
rstrip(s) == IF s # <<>> /\ IsSpace(s[Len(s)])
             THEN rstrip(SubSeq(s, 1, Len(s) - 1))
             ELSE s

\* str.strip()
strip(s) == rstrip(lstrip(s))

\* str.split(sep) for a one-character separator: the parts between the
\* separators, empty parts kept; always at least one part
RECURSIVE split(_, _)
split(s, sep) ==
    IF IndexIn(sep, s) = 0 THEN <<s>>
    ELSE <<SubSeq(s, 1, IndexIn(sep, s) - 1)>>
         \o split(SubSeq(s, IndexIn(sep, s) + 1, Len(s)), sep)

RECURSIVE digits_value(_)
digits_value(s) == IF s = <<>> THEN 0
                   ELSE 10 * digits_value(SubSeq(s, 1, Len(s) - 1))
                        + (IndexIn(s[Len(s)], DigitChars) - 1)

AllDigits(s) == s # <<>> /\ \A i \in 1..Len(s) : IndexIn(s[i], DigitChars) > 0

\* int(text): blanks around the number are ignored, one sign is allowed, the
\* rest must be decimal digits; anything else raises ValueError (ok = FALSE)
int_parse(s) ==
    LET t    == strip(s)
        sgn  == t # <<>> /\ t[1] \in {"+", "-"}
        body == IF sgn THEN Tail(t) ELSE t
    IN  IF AllDigits(body)
        THEN [ok |-> TRUE,
              val |-> IF sgn /\ t[1] = "-" THEN 0 - digits_value(body)
                      ELSE digits_value(body)]
        ELSE [ok |-> FALSE, val |-> 0]

RECURSIVE nat_str(_)
nat_str(n) == IF n < 10 THEN <<DigitChars[n + 1]>>
              ELSE nat_str(n \div 10) \o <<DigitChars[(n % 10) + 1]>>

\* str(n) for an integer
int_str(n) == IF n < 0 THEN <<"-">> \o nat_str(0 - n) ELSE nat_str(n)

(***************************************************************************)
(* Values, records and result sets.                                        *)
(*                                                                         *)
(* A scalar is a string or an integer.  A result is a dict (a sequence of  *)
(* key/value pairs, in insertion order), a list of elements, or something  *)
(* else (None, a number, a tuple): kind says which.                        *)
(***************************************************************************)
StrV(s) == [t |-> "str", n |-> 0, s |-> s]
IntV(n) == [t |-> "int", n |-> n, s |-> <<>>]

\* str(value), as store_data_as_xml applies it to a field's value
str(v) == IF v.t = "int" THEN int_str(v.n) ELSE v.s

KV(k, v) == [key |-> k, value |-> v]

Dict(fields) == [kind |-> "dict", fields |-> fields, items |-> <<>>]
List(items)  == [kind |-> "list", fields |-> <<>>, items |-> items]
Tuple(items) == [kind |-> "tuple", fields |-> <<>>, items |-> items]
NoneValue    == [kind |-> "none", fields |-> <<>>, items |-> <<>>]
Number       == [kind |-> "int", fields |-> <<>>, items |-> <<>>]

\* isinstance(x, dict): the only kind with an items() method
IsMapping(x) == x.kind = "dict"

(***************************************************************************)
(* The two serializers.                                                    *)
(***************************************************************************)
Element(tag, children) == [tag |-> tag, text |-> <<>>, children |-> children]
NoDoc == Element("", <<>>)

\* ET.SubElement(parent, key) with child.text = str(value), one per field
LeafElements(fields) ==
    [i \in 1..Len(fields) |->
        [tag |-> fields[i].key, text |-> str(fields[i].value), children |-> <<>>]]

\* A faulty variant: the per-record wrapper element is dropped for a one-element list.
store_data_as_xml_unwrap(d) ==
    IF d.kind = "list"
    THEN IF \A i \in 1..Len(d.items) : IsMapping(d.items[i])
         THEN [raised |-> "none",
               doc |-> IF Len(d.items) = 1
                       THEN Element("data", LeafElements(d.items[1].fields))
                       ELSE Element("data",
                              [i \in 1..Len(d.items) |->
                                 Element("item", LeafElements(d.items[i].fields))])]
         ELSE [raised |-> "AttributeError", doc |-> NoDoc]
    ELSE IF d.kind = "dict"
    THEN [raised |-> "none", doc |-> Element("data", LeafElements(d.fields))]
    ELSE [raised |-> "ValueError", doc |-> NoDoc]

\* store_data_as_xml up to the write: the exception raised, if any, and the
\* element tree that is pretty-printed into the file otherwise.  item.items()
\* raises AttributeError at the first element of a list that is no dict.
store_data_as_xml(d) ==
    IF d.kind = "list"
    THEN IF \A i \in 1..Len(d.items) : IsMapping(d.items[i])
         THEN [raised |-> "none",
               doc |-> Element("data",
                         [i \in 1..Len(d.items) |->
                            Element("item", LeafElements(d.items[i].fields))])]
         ELSE [raised |-> "AttributeError", doc |-> NoDoc]
    ELSE IF d.kind = "dict"
    THEN [raised |-> "none", doc |-> Element("data", LeafElements(d.fields))]
    ELSE [raised |-> "ValueError", doc |-> NoDoc]

\* json.dumps(data, indent=4): objects keep their key order, lists and tuples
\* both become arrays, None becomes null; none of these raises
RECURSIVE json_value(_)
json_value(d) ==
    [kind   |-> IF d.kind = "tuple" THEN "list" ELSE d.kind,
     fields |-> d.fields,
     items  |-> [i \in 1..Len(d.items) |-> json_value(d.items[i])]]

store_data_as_json(d) == [raised |-> "none", doc |-> json_value(d)]

XmlFile(doc)  == [fmt |-> "xml", xml |-> doc, json |-> NoneValue]
JsonFile(doc) == [fmt |-> "json", xml |-> NoDoc, json |-> doc]

(***************************************************************************)
(* The store.  db holds the five tables, each a sequence of rows in rowid  *)
(* order.  Foreign keys are not enforced: an enrollment may name a student *)
(* or a course that has no row.                                            *)
(***************************************************************************)
S1 == <<"S","1">>
S2 == <<"S","2">>
C1 == <<"C","1">>
C2 == <<"C","2">>
T1 == <<"T","1">>
T2 == <<"T","2">>

StudentRow(sid, first, last, email, aid) ==
    [student_id |-> sid, first_name |-> first, last_name |-> last,
     email |-> email, address_id |-> aid]
CourseRow(code, name, tid) ==
    [course_code |-> code, course_name |-> name, teacher_id |-> tid]
EnrollRow(sid, code, complete, mark) ==
    [student_id |-> sid, course_code |-> code, is_complete |-> complete, mark |-> mark]
AddressRow(aid, street, city) ==
    [address_id |-> aid, street |-> street, city |-> city]
ReviewRow(sid, code, c, e, st, d, text) ==
    [student_id |-> sid, course_code |-> code, completeness |-> c, efficiency |-> e,
     style |-> st, documentation |-> d, review_text |-> text]

StudentRows == << StudentRow(S1, <<"A","n","n">>, <<"L","e","e">>, <<"a","@","x">>, 1),
                  StudentRow(S2, <<"B","o">>, <<"R","a","y">>, <<"b","@","x">>, 2) >>
CourseRows  == << CourseRow(C1, <<"M","a","t","h","s">>, T1),
                  CourseRow(C2, <<"A","r","t">>, T1),
                  CourseRow(C1, <<"A","l","g","e","b","r","a">>, T2) >>
EnrollRows  == << EnrollRow(S1, C1, 1, 30),
                  EnrollRow(S1, C2, 0, 31),
                  EnrollRow(S2, C1, 0, 30) >>
AddressRows == << AddressRow(1, <<"1","2"," ","O","a","k">>, <<"Y","o","r","k">>) >>
ReviewRows  == << ReviewRow(S1, C1, 4, 3, 2, 1, <<"o","k">>) >>

\* every table made of some of the rows of u, in u's order
RECURSIVE SubSeqs(_)
SubSeqs(u) == IF u = <<>> THEN {<<>>}
              ELSE LET r == SubSeqs(Tail(u))
                   IN  r \cup {<<Head(u)>> \o s : s \in r}

FullDatabase == [Student |-> StudentRows, Course |-> CourseRows,
                 StudentCourse |-> EnrollRows, Address |-> AddressRows,
                 Review |-> ReviewRows]

\* the full database, and every database that lacks some rows of one of the
\* tables Student, Course and StudentCourse
Databases == {[FullDatabase EXCEPT !.Student = t] : t \in SubSeqs(StudentRows)}
             \cup {[FullDatabase EXCEPT !.Course = t] : t \in SubSeqs(CourseRows)}
             \cup {[FullDatabase EXCEPT !.StudentCourse = t] : t \in SubSeqs(EnrollRows)}

(***************************************************************************)
(* The queries, each the rows its SELECT returns.                          *)
(***************************************************************************)
\* SELECT first_name, last_name, email FROM Student WHERE student_id=? ; fetchone()
get_student_info(d, student_id) ==
    LET Hit(r) == r.student_id = student_id
    IN  SelectSeq(d.Student, Hit)

\* SELECT course_name FROM Course WHERE course_code=? ; fetchone()[0]
\* raised is "TypeError" when fetchone() gave None
get_course_name(d, course_code) ==
    LET Hit(r) == r.course_code = course_code
        rows   == SelectSeq(d.Course, Hit)
    IN  IF rows = <<>> THEN [raised |-> "TypeError", name |-> <<>>]
        ELSE [raised |-> "none", name |-> rows[1].course_name]

\* SELECT course_code FROM StudentCourse WHERE student_id=?
course_codes_of(d, student_id) ==
    LET Hit(r) == r.student_id = student_id
        rows   == SelectSeq(d.StudentCourse, Hit)
    IN  [i \in 1..Len(rows) |-> rows[i].course_code]

Range(s) == {s[i] : i \in 1..Len(s)}

\* A faulty variant: the names are fetched code by code, so a code enrolled twice or
\* a code with two Course rows is listed differently.
subjects_of_per_code(d, course_codes) ==
    [i \in 1..Len(course_codes) |->
        LET Hit(r) == r.course_code = course_codes[i]
            rows   == SelectSeq(d.Course, Hit)
        IN  IF rows = <<>> THEN <<>> ELSE rows[1].course_name]

\* SELECT course_name FROM Course WHERE course_code IN (?, ..., ?)
subjects_of(d, course_codes) ==
    LET Hit(r) == r.course_code \in Range(course_codes)
        rows   == SelectSeq(d.Course, Hit)
    IN  [i \in 1..Len(rows) |-> rows[i].course_name]

(***************************************************************************)
(* What the operator may type at each prompt.                              *)
(***************************************************************************)
MenuInputs == { <<"1">>, <<"2">>, <<"3">>, <<"4">>, <<"5">>, <<"6">>, <<"7">>, <<"8">>,
                <<" ","8">>, <<"9">>, <<"0">>, <<"-","1">>, <<>>, <<"8",".","0">> }
StudentIdInputs == { <<"s","1">>, <<" ","S","2"," ">>, <<"S","9">> }
TeacherIdInputs == { <<"t","1">>, <<"T","2">>, <<"T","9">> }
NameInputs == { << <<"a","n","n">>, <<"L","E","E">> >>,
                << <<"B","o"," ">>, <<"r","a","y">> >>,
                << <<" ","a","n","n">>, <<"l","e","e">> >>,
                << <<"a","n","n">>, <<"r","a","y">> >> }
GoBackInputs == { <<"B">>, <<"b">>, <<" ","b"," ">>, <<"x">>, <<>> }
SaveInputs == { <<"1">>, <<"2">>, <<" ","1">>, <<"3">>, <<"y">>, <<>> }
FilenameInputs == { <<"a",".","x","m","l">>, <<"a",".","J","S","O","N">>,
                    <<" ","a",".","b",".","X","m","l"," ">>,
                    <<>>, <<"a">>, <<".","x","m","l">>, <<"a",".">>,
                    <<"a",".","t","x","t">>, <<"a",".","x","m","l",".","t","x","t">>,
                    <<"a",".","x","m","l","x">> }

(***************************************************************************)
(* State.                                                                  *)
(*   pc          where the program is: a prompt it waits at, a function it *)
(*               is about to run, or "exited"                              *)
(*   ret         where offer_to_store returns to                           *)
(*   flow        the keyed sub-flow go_back_to_menu was called from        *)
(*   conn        the connection: "none", "open" or "closed"                *)
(*   data        the result handed to offer_to_store                       *)
(*   files       the files written, by name                                *)
(*   nWrites     how many file writes were made                            *)
(*   exitStatus  the process's exit status, -1 while it runs               *)
(*   out         the last step: where it was taken (at), what it read      *)
(*               (input), the last message it printed (msg), how many      *)
(*               SELECTs it ran (queries), the exception raised in it, and *)
(*               whether it wrote a file                                   *)
(***************************************************************************)
Out(input, msg, queries, raised, wrote) ==
    [at |-> pc, input |-> input, msg |-> msg, queries |-> queries,
     raised |-> raised, wrote |-> wrote]

NoData == NoneValue

Init == /\ pc = "connect_to_db"
        /\ ret = "menu"
        /\ flow = ""
        /\ conn = "none"
        /\ db \in Databases
        /\ data = NoData
        /\ files = <<>>
        /\ nWrites = 0
        /\ exitStatus = -1
        /\ out = [at |-> "", input |-> <<>>, msg |-> "", queries |-> 0,
                  raised |-> "none", wrote |-> FALSE]

\* sys.exit(status), or an exception nothing catches (status 1, a traceback)
Exit(status, input, msg, queries, raised) ==
    /\ pc' = "exited"
    /\ exitStatus' = status
    /\ out' = Out(input, msg, queries, raised, FALSE)
    /\ UNCHANGED <<ret, flow, conn, db, data, files, nWrites>>

\* back at the top of menu_options' loop; the sub-flow's locals are gone
ToMenu(input, msg, queries) ==
    /\ pc' = "menu"
    /\ flow' = ""
    /\ data' = NoData
    /\ out' = Out(input, msg, queries, "none", FALSE)
    /\ UNCHANGED <<ret, conn, db, files, nWrites, exitStatus>>

\* offer_to_store(result) is called
Offer(result, input, queries) ==
    /\ pc' = "offer_to_store"
    /\ data' = result
    /\ out' = Out(input, "Would you like to save this result as a file?", queries,
                  "none", FALSE)
    /\ UNCHANGED <<ret, flow, conn, db, files, nWrites, exitStatus>>

\* a miss in a keyed sub-flow: go_back_to_menu() is called
Miss(input, msg, queries) ==
    /\ pc' = "go_back_to_menu"
    /\ out' = Out(input, msg, queries, "none", FALSE)
    /\ UNCHANGED <<ret, flow, conn, db, data, files, nWrites, exitStatus>>

(***************************************************************************)
(* Start-up.                                                               *)
(***************************************************************************)
\* A faulty variant: a failed connection is reported but the program carries on.
connect_to_db_carry_on ==
    /\ pc = "connect_to_db"
    /\ \E opened \in BOOLEAN :
         /\ pc' = "initialize_db"
         /\ conn' = IF opened THEN "open" ELSE "none"
         /\ out' = Out(<<>>, IF opened THEN ""
                             ELSE "Error occurred while connecting to the database",
                       0, IF opened THEN "none" ELSE "sqlite3.Error", FALSE)
         /\ UNCHANGED <<ret, flow, db, data, files, nWrites, exitStatus>>

connect_to_db ==
    /\ pc = "connect_to_db"
    /\ \E opened \in BOOLEAN :
         IF opened
         THEN /\ pc' = "initialize_db"
              /\ conn' = "open"
              /\ out' = Out(<<>>, "", 0, "none", FALSE)
              /\ UNCHANGED <<ret, flow, db, data, files, nWrites, exitStatus>>
         ELSE Exit(1, <<>>, "Error occurred while connecting to the database", 0,
                   "sqlite3.Error")

initialize_db ==
    /\ pc = "initialize_db"
    /\ \E script_found \in BOOLEAN :
         IF script_found
         THEN /\ pc' = "menu"
              /\ out' = Out(<<>>, "Welcome to the HyperionDev Query APP!", 0, "none",
                            FALSE)
              /\ UNCHANGED <<ret, flow, conn, db, data, files, nWrites, exitStatus>>
         ELSE Exit(1, <<>>, "Error: SQL script file 'create_database.sql' not found.",
                   0, "FileNotFoundError")

(***************************************************************************)
(* The main menu and the exit path.                                        *)
(***************************************************************************)
\* A faulty variant: every number from 8 on leaves the program.
MenuTargetFrom8(n) ==
    CASE n = 1 -> "all_student_names"
      [] n = 2 -> "view_subjects_by_student"
      [] n = 3 -> "lookup_address_by_name"
      [] n = 4 -> "list_reviews_by_student"
      [] n = 5 -> "list_courses_by_teacher"
      [] n = 6 -> "list_students_not_completed"
      [] n = 7 -> "list_students_with_low_marks"
      [] n >= 8 -> "exit_program"
      [] OTHER -> "menu"

\* the if/elif chain of menu_options: the function a number selects
MenuTarget(n) ==
    CASE n = 1 -> "all_student_names"
      [] n = 2 -> "view_subjects_by_student"
      [] n = 3 -> "lookup_address_by_name"
      [] n = 4 -> "list_reviews_by_student"
      [] n = 5 -> "list_courses_by_teacher"
      [] n = 6 -> "list_students_not_completed"
      [] n = 7 -> "list_students_with_low_marks"
      [] n = 8 -> "exit_program"
      [] OTHER -> "menu"

KeyedFlows == {"view_subjects_by_student", "lookup_address_by_name",
               "list_reviews_by_student", "list_courses_by_teacher"}

\* one turn of menu_options' loop: read, convert, dispatch
menu_options ==
    /\ pc = "menu"
    /\ \E inp \in MenuInputs :
         LET user_input == int_parse(inp)
         IN  IF ~user_input.ok
             THEN ToMenu(<<inp>>, "Invalid input. Please enter a valid number.", 0)
             ELSE IF MenuTarget(user_input.val) = "menu"
             THEN ToMenu(<<inp>>,
                         "Invalid option. Please select a number between 1 and 8.", 0)
             ELSE /\ MenuTarget(user_input.val) = "exit_program" \/ nWrites < MaxWrites
                  /\ pc' = MenuTarget(user_input.val)
                  /\ flow' = IF MenuTarget(user_input.val) \in KeyedFlows
                             THEN MenuTarget(user_input.val) ELSE ""
                  /\ out' = Out(<<inp>>, "", 0, "none", FALSE)
                  /\ UNCHANGED <<ret, conn, db, data, files, nWrites, exitStatus>>

\* A faulty variant: the connection is left open.
exit_program_no_close ==
    /\ pc = "exit_program"
    /\ pc' = "sys_exit"
    /\ out' = Out(<<>>, "Program exited successfully!", 0, "none", FALSE)
    /\ UNCHANGED <<ret, flow, conn, db, data, files, nWrites, exitStatus>>

\* exit_program, first part: conn.close() and the farewell
exit_program ==
    /\ pc = "exit_program"
    /\ pc' = "sys_exit"
    /\ conn' = "closed"
    /\ out' = Out(<<>>, "Program exited successfully!", 0, "none", FALSE)
    /\ UNCHANGED <<ret, flow, db, data, files, nWrites, exitStatus>>

\* exit_program, second part: sys.exit(0); SystemExit is no ValueError, so
\* menu_options' handler lets it through
sys_exit ==
    /\ pc = "sys_exit"
    /\ Exit(0, <<>>, "Program exited successfully!", 0, "SystemExit")

(***************************************************************************)
(* go_back_to_menu.                                                        *)
(***************************************************************************)
\* A faulty variant: only an exact upper-case B goes back.
go_back_exact(choice) == choice = <<"B">>

\* input(...).upper().strip() == 'B'
go_back(choice) == strip(upper(choice)) = <<"B">>

go_back_to_menu ==
    /\ pc = "go_back_to_menu"
    /\ \E inp \in GoBackInputs :
         IF go_back(inp)
         THEN ToMenu(<<inp>>, "", 0)
         ELSE /\ pc' = flow
              /\ out' = Out(<<inp>>, "", 0, "none", FALSE)
              /\ UNCHANGED <<ret, flow, conn, db, data, files, nWrites, exitStatus>>

(***************************************************************************)
(* offer_to_store.                                                         *)
(***************************************************************************)
Last(s) == s[Len(s)]

\* A faulty variant: the extension is compared as typed.
format_of_case_sensitive(filename) ==
    IF filename = <<>> \/ IndexIn(".", filename) = 0 \/ split(filename, ".")[1] = <<>>
    THEN "invalid_filename"
    ELSE LET ext == Last(split(filename, "."))
         IN  IF ext = <<"x","m","l">> THEN "xml"
             ELSE IF ext = <<"j","s","o","n">> THEN "json"
             ELSE "invalid_extension"

\* the checks on the stripped filename: what the inner loop does with it
format_of(filename) ==
    IF filename = <<>> \/ IndexIn(".", filename) = 0 \/ split(filename, ".")[1] = <<>>
    THEN "invalid_filename"
    ELSE LET ext == lower(Last(split(filename, ".")))
         IN  IF ext = <<"x","m","l">> THEN "xml"
             ELSE IF ext = <<"j","s","o","n">> THEN "json"
             ELSE "invalid_extension"

\* the outer loop: the save question
offer_to_store ==
    /\ pc = "offer_to_store"
    /\ \E inp \in SaveInputs :
         LET choice == int_parse(inp)
         IN  IF ~choice.ok
             THEN /\ out' = Out(<<inp>>,
                        "Invalid input. Please enter a valid number (1 for Yes, 2 for No).",
                        0, "ValueError", FALSE)
                  /\ UNCHANGED <<pc, ret, flow, conn, db, data, files, nWrites, exitStatus>>
             ELSE IF choice.val = 1
             THEN /\ pc' = "filename_prompt"
                  /\ out' = Out(<<inp>>, "", 0, "none", FALSE)
                  /\ UNCHANGED <<ret, flow, conn, db, data, files, nWrites, exitStatus>>
             ELSE IF choice.val = 2
             THEN /\ pc' = ret
                  /\ flow' = ""
                  /\ data' = NoData
                  /\ out' = Out(<<inp>>, "No file will be saved.", 0, "none", FALSE)
                  /\ UNCHANGED <<ret, conn, db, files, nWrites, exitStatus>>
             ELSE /\ out' = Out(<<inp>>,
                        "Invalid choice. Please enter 1 for Yes or 2 for No.",
                        0, "none", FALSE)
                  /\ UNCHANGED <<pc, ret, flow, conn, db, data, files, nWrites, exitStatus>>

\* open(filename, 'w').write(...), the confirmation, and the return
WriteAndReturn(inp, filename, content) ==
    /\ files' = (filename :> content) @@ files
    /\ nWrites' = nWrites + 1
    /\ pc' = ret
    /\ flow' = ""
    /\ data' = NoData
    /\ out' = Out(<<inp>>, "Data successfully written to", 0, "none", TRUE)
    /\ UNCHANGED <<ret, conn, db, exitStatus>>

\* the inner loop: the filename prompt, the dispatch on the extension, and
\* the serializer it calls.  A ValueError from the serializer is caught by
\* offer_to_store's own handler; any other exception leaves the program.
filename_prompt ==
    /\ pc = "filename_prompt"
    /\ \E inp \in FilenameInputs :
         LET filename == strip(inp)
             fmt      == format_of(filename)
             xml      == store_data_as_xml(data)
             json     == store_data_as_json(data)
         IN  CASE fmt = "invalid_filename" ->
                    /\ out' = Out(<<inp>>, "Invalid filename.", 0, "none", FALSE)
                    /\ UNCHANGED <<pc, ret, flow, conn, db, data, files, nWrites,
                                   exitStatus>>
               [] fmt = "invalid_extension" ->
                    /\ out' = Out(<<inp>>,
                                  "Invalid file extension. Please use .xml or .json.",
                                  0, "none", FALSE)
                    /\ UNCHANGED <<pc, ret, flow, conn, db, data, files, nWrites,
                                   exitStatus>>
               [] fmt = "xml" /\ xml.raised = "none" ->
                    WriteAndReturn(inp, filename, XmlFile(xml.doc))
               [] fmt = "xml" /\ xml.raised = "ValueError" ->
                    /\ pc' = "offer_to_store"
                    /\ out' = Out(<<inp>>,
                        "Invalid input. Please enter a valid number (1 for Yes, 2 for No).",
                        0, "ValueError", FALSE)
                    /\ UNCHANGED <<ret, flow, conn, db, data, files, nWrites, exitStatus>>
               [] fmt = "xml" /\ xml.raised \notin {"none", "ValueError"} ->
                    Exit(1, <<inp>>, "Traceback", 0, xml.raised)
               [] fmt = "json" ->
                    WriteAndReturn(inp, filename, JsonFile(json.doc))

(***************************************************************************)
(* The seven lookups.  Each keyed one is one turn of its while loop.       *)
(***************************************************************************)
\* A faulty variant: the rows listed are removed from the table.
all_student_names_consuming ==
    /\ pc = "all_student_names"
    /\ db' = [db EXCEPT !.Student = <<>>]
    /\ pc' = "menu"
    /\ flow' = ""
    /\ data' = NoData
    /\ out' = Out(<<>>, "No students found.", 1, "none", FALSE)
    /\ UNCHANGED <<ret, conn, files, nWrites, exitStatus>>

all_student_names ==
    /\ pc = "all_student_names"
    /\ IF db.Student # <<>>
       THEN Offer(List([i \in 1..Len(db.Student) |->
                     Dict(<< KV("first_name", StrV(db.Student[i].first_name)),
                             KV("last_name", StrV(db.Student[i].last_name)) >>)]),
                  <<>>, 1)
       ELSE ToMenu(<<>>, "No students found.", 1)

view_subjects_by_student ==
    /\ pc = "view_subjects_by_student"
    /\ \E inp \in StudentIdInputs :
         LET student_id   == strip(upper(inp))
             course_codes == course_codes_of(db, student_id)
             subjects     == subjects_of(db, course_codes)
         IN  IF course_codes # <<>>
             THEN IF subjects # <<>>
                  THEN Offer(List([i \in 1..Len(subjects) |->
                                Dict(<< KV("course_name", StrV(subjects[i])) >>)]),
                             <<inp>>, 2)
                  ELSE ToMenu(<<inp>>, "No subjects found for this student.", 2)
             ELSE Miss(<<inp>>, "Incorrect student ID. Please try again.", 1)

lookup_address_by_name ==
    /\ pc = "lookup_address_by_name"
    /\ \E inp \in NameInputs :
         LET firstname  == strip(capitalize(inp[1]))
             surname    == strip(capitalize(inp[2]))
             IsNamed(r) == r.first_name = firstname /\ r.last_name = surname
             students   == SelectSeq(db.Student, IsNamed)
             IsAt(r)    == r.address_id = students[1].address_id
             address    == SelectSeq(db.Address, IsAt)
         IN  IF students # <<>>
             THEN IF address # <<>>
                  THEN Offer(Dict(<< KV("street", StrV(address[1].street)),
                                     KV("city", StrV(address[1].city)) >>),
                             inp, 2)
                  ELSE ToMenu(inp, "No address found for this student.", 2)
             ELSE Miss(inp, "No student found with the name. Please try again.", 1)

list_reviews_by_student ==
    /\ pc = "list_reviews_by_student"
    /\ \E inp \in StudentIdInputs :
         LET student_id == strip(upper(inp))
             IsOf(r)    == r.student_id = student_id
             reviews    == SelectSeq(db.Review, IsOf)
         IN  IF reviews # <<>>
             THEN Offer(List([i \in 1..Len(reviews) |->
                           Dict(<< KV("course_code", StrV(reviews[i].course_code)),
                                   KV("completeness", IntV(reviews[i].completeness)),
                                   KV("efficiency", IntV(reviews[i].efficiency)),
                                   KV("style", IntV(reviews[i].style)),
                                   KV("documentation", IntV(reviews[i].documentation)),
                                   KV("review_text", StrV(reviews[i].review_text)) >>)]),
                        <<inp>>, 1)
             ELSE Miss(<<inp>>, "No reviews found for student. Please try again.", 1)

list_courses_by_teacher ==
    /\ pc = "list_courses_by_teacher"
    /\ \E inp \in TeacherIdInputs :
         LET teacher_id == strip(upper(inp))
             IsBy(r)    == r.teacher_id = teacher_id
             courses    == SelectSeq(db.Course, IsBy)
         IN  IF courses # <<>>
             THEN Offer(List([i \in 1..Len(courses) |->
                           Dict(<< KV("teacher_id", StrV(teacher_id)),
                                   KV("course_name", StrV(courses[i].course_name)) >>)]),
                        <<inp>>, 1)
             ELSE Miss(<<inp>>, "No courses found for teacher. Please try again.", 1)

Min(S) == CHOOSE x \in S : \A y \in S : x <= y

\* The for loop of list_students_not_completed and of
\* list_students_with_low_marks over the selected enrollments: per row one
\* get_student_info and one get_course_name; a row whose student is unknown
\* is skipped; the loop ends at the first TypeError from get_course_name.
enrollment_report(d, rows, with_mark) ==
    LET failing == {i \in 1..Len(rows) :
                      get_course_name(d, rows[i].course_code).raised # "none"}
        Known(r) == get_student_info(d, r.student_id) # <<>>
        kept    == SelectSeq(rows, Known)
        Entry(r) ==
            LET student_info == get_student_info(d, r.student_id)[1]
                base == << KV("student_id", StrV(r.student_id)),
                           KV("course_code", StrV(r.course_code)),
                           KV("first_name", StrV(student_info.first_name)),
                           KV("last_name", StrV(student_info.last_name)),
                           KV("email", StrV(student_info.email)),
                           KV("course_name",
                              StrV(get_course_name(d, r.course_code).name)) >>
            IN  Dict(IF with_mark THEN Append(base, KV("mark", IntV(r.mark)))
                     ELSE base)
    IN  IF failing # {}
        THEN [raised |-> "TypeError", items |-> <<>>, queries |-> 1 + 2 * Min(failing)]
        ELSE [raised |-> "none",
              items |-> [i \in 1..Len(kept) |-> Entry(kept[i])],
              queries |-> 1 + 2 * Len(rows)]

list_students_not_completed ==
    /\ pc = "list_students_not_completed"
    /\ LET NotComplete(r)     == r.is_complete = 0
           incomplete_courses == SelectSeq(db.StudentCourse, NotComplete)
           report == enrollment_report(db, incomplete_courses, FALSE)
       IN  IF incomplete_courses # <<>>
           THEN IF report.raised = "none"
                THEN Offer(List(report.items), <<>>, report.queries)
                ELSE Exit(1, <<>>, "Traceback", report.queries, report.raised)
           ELSE ToMenu(<<>>, "No students have incomplete courses.", 1)

list_students_with_low_marks ==
    /\ pc = "list_students_with_low_marks"
    /\ LET Low(r)      == r.mark <= 30
           low_courses == SelectSeq(db.StudentCourse, Low)
           report == enrollment_report(db, low_courses, TRUE)
       IN  IF low_courses # <<>>
           THEN IF report.raised = "none"
                THEN Offer(List(report.items), <<>>, report.queries)
                ELSE Exit(1, <<>>, "Traceback", report.queries, report.raised)
           ELSE ToMenu(<<>>, "No students have a mark below 30.", 1)

(***************************************************************************)
(* The program.                                                            *)
(***************************************************************************)
Next == \/ connect_to_db
        \/ initialize_db
        \/ menu_options
        \/ exit_program
        \/ sys_exit
        \/ go_back_to_menu
        \/ offer_to_store
        \/ filename_prompt
        \/ all_student_names
        \/ view_subjects_by_student
        \/ lookup_address_by_name
        \/ list_reviews_by_student
        \/ list_courses_by_teacher
        \/ list_students_not_completed
        \/ list_students_with_low_marks

Spec == Init /\ [][Next]_vars

(***************************************************************************)
(* offer_to_store called on its own, with any result a caller could pass.  *)
(***************************************************************************)
Street == <<"1","2"," ","O","a","k">>
City   == <<"Y","o","r","k">>

Records == { <<>>,
             << KV("street", StrV(Street)), KV("city", StrV(City)) >>,
             << KV("city", StrV(City)), KV("street", StrV(Street)) >>,
             << KV("mark", IntV(30)), KV("delta", IntV(-7)), KV("note", StrV(<<>>)) >> }

Elements == {Dict(r) : r \in Records} \cup {Number, NoneValue}

SeqsUpTo(E, n) == UNION {[1..k -> E] : k \in 0..n}

Results == {Dict(r) : r \in Records}
           \cup {List(items) : items \in SeqsUpTo(Elements, MaxRecords)}
           \cup {Tuple(items) : items \in SeqsUpTo({Dict(r) : r \in Records}, 1)}
           \cup {NoneValue, Number}

InitStore == /\ pc = "offer_to_store"
             /\ ret = "returned"
             /\ flow = ""
             /\ conn = "open"
             /\ db = FullDatabase
             /\ data \in Results
             /\ files = <<>>
             /\ nWrites = 0
             /\ exitStatus = -1
             /\ out = [at |-> "", input |-> <<>>, msg |-> "", queries |-> 0,
                       raised |-> "none", wrote |-> FALSE]

NextStore == \/ offer_to_store
             \/ filename_prompt

SpecStore == InitStore /\ [][NextStore]_vars

(***************************************************************************)
(* Vocabulary of the properties, stated apart from the program's code.     *)
(***************************************************************************)
FirstDot(s) == CHOOSE i \in 1..Len(s) : s[i] = "." /\ \A j \in 1..(i - 1) : s[j] # "."
LastDot(s)  == CHOOSE i \in 1..Len(s) : s[i] = "." /\ \A j \in (i + 1)..Len(s) : s[j] # "."
HasDot(s)   == \E i \in 1..Len(s) : s[i] = "."
AfterLastDot(s) == SubSeq(s, LastDot(s) + 1, Len(s))
SameIgnoringCase(a, b) ==
    /\ Len(a) = Len(b)
    /\ \A i \in 1..Len(a) : a[i] = b[i] \/ upper_char(a[i]) = b[i] \/ a[i] = upper_char(b[i])

\* the filename has no base name or no extension separator
Malformed(name) == name = <<>> \/ ~HasDot(name) \/ FirstDot(name) = 1

NothingWritten == files' = files /\ nWrites' = nWrites /\ ~out'.wrote

IsTextOf(text, value) ==
    IF value.t = "int"
    THEN /\ int_parse(text).ok /\ int_parse(text).val = value.n
         /\ text[1] # "+" /\ \A i \in 1..Len(text) : text[i] # " "
    ELSE text = value.s

LeavesOf(children, fields) ==
    /\ Len(children) = Len(fields)
    /\ \A j \in 1..Len(fields) :
         /\ children[j].tag = fields[j].key
         /\ IsTextOf(children[j].text, fields[j].value)
         /\ children[j].children = <<>>

\* C2: a list of N records is written as a root with exactly N children, one
\* per record in order, each with one leaf per field in field order holding the
\* string-converted value; a single record is written as a root holding the
\* leaves directly.
C2_XmlShape ==
    [][ (pc = "filename_prompt" /\ out'.wrote
           /\ files'[strip(out'.input[1])].fmt = "xml") =>
          LET doc == files'[strip(out'.input[1])].xml
          IN  /\ doc.tag = "data"
              /\ doc.text = <<>>
              /\ data.kind \in {"list", "dict"}
              /\ data.kind = "list" =>
                   /\ Len(doc.children) = Len(data.items)
                   /\ \A i \in 1..Len(data.items) :
                        /\ doc.children[i].tag = "item"
                        /\ doc.children[i].text = <<>>
                        /\ LeavesOf(doc.children[i].children, data.items[i].fields)
              /\ data.kind = "dict" => LeavesOf(doc.children, data.fields) ]_vars

C2_Witness ==
    /\ out.at = "filename_prompt"
    /\ out.wrote
    /\ \E f \in DOMAIN files :
         /\ files[f].fmt = "xml"
         /\ Len(files[f].xml.children) = 2
         /\ files[f].xml.children[1].tag = "item"
         /\ Len(files[f].xml.children[1].children) = 3
         /\ files[f].xml.children[1].children[2].text = <<"-","7">>
         /\ files[f].xml.children[2].children = <<>>

\* a mapping, or a sequence whose elements are all mappings
IsRecordOrRecords(d) ==
    \/ d.kind = "dict"
    \/ /\ d.kind \in {"list", "tuple"}
       /\ \A i \in 1..Len(d.items) : d.items[i].kind = "dict"

\* C3: whenever store_data_as_xml is called with a result that is neither a
\* mapping nor a sequence of mappings, it raises ValueError and writes no file.
C3_ValueErrorOnBadShape ==
    [][ (pc = "filename_prompt" /\ format_of(strip(out'.input[1])) = "xml"
           /\ ~IsRecordOrRecords(data)) =>
          (out'.raised = "ValueError" /\ NothingWritten) ]_vars

\* C4: a ValueError raised by store_data_as_xml is never answered with the
\* message for an invalid Yes/No entry and a new save question.
C4_ShapeErrorDistinct ==
    ~ ( /\ out.at = "filename_prompt"
        /\ out.raised = "ValueError"
        /\ out.msg = "Invalid input. Please enter a valid number (1 for Yes, 2 for No)."
        /\ pc = "offer_to_store" )

\* the course codes on the enrollment rows of a student
EnrolledCodes(d, student_id) ==
    {d.StudentCourse[i].course_code :
        i \in {j \in 1..Len(d.StudentCourse) : d.StudentCourse[j].student_id = student_id}}

\* the Course rows (by position) whose code is among the codes
CourseRowsIn(d, codes) == {i \in 1..Len(d.Course) : d.Course[i].course_code \in codes}

\* C5: after view_subjects_by_student has read the id of a student with
\* enrollment codes S, nothing was raised, and the result holds exactly one
\* record per Course row whose code is in S, each with that row's name; when no
\* Course row matches there is no result and the program is back at the menu.
C5_SubjectsPerCourseRow ==
    out.at = "view_subjects_by_student" =>
      LET S    == EnrolledCodes(db, strip(upper(out.input[1])))
          rows == CourseRowsIn(db, S)
      IN  S # {} =>
            /\ out.raised = "none"
            /\ IF rows = {}
               THEN pc = "menu" /\ data = NoData
               ELSE /\ pc = "offer_to_store"
                    /\ data.kind = "list"
                    /\ Len(data.items) = Cardinality(rows)
                    /\ \E f \in [1..Len(data.items) -> rows] :
                         /\ \A i, j \in 1..Len(data.items) : i # j => f[i] # f[j]
                         /\ \A i \in 1..Len(data.items) :
                              data.items[i] =
                                Dict(<< KV("course_name",
                                           StrV(db.Course[f[i]].course_name)) >>)

C5_Witness ==
    /\ out.at = "view_subjects_by_student"
    /\ EnrolledCodes(db, strip(upper(out.input[1]))) = {C1, C2}
    /\ \A i \in 1..Len(db.Course) : db.Course[i].course_code = C1
    /\ pc = "offer_to_store"
    /\ Len(data.items) = 1

Lookups == {"all_student_names", "view_subjects_by_student", "lookup_address_by_name",
            "list_reviews_by_student", "list_courses_by_teacher",
            "list_students_not_completed", "list_students_with_low_marks"}

\* C6: no lookup raises an exception on account of a query that returned no
\* rows: after a step of any of the seven lookups nothing was raised and the
\* process has not ended.
C6_NoLookupRaises ==
    out.at \in Lookups => out.raised = "none" /\ pc # "exited"

\* the first query of a keyed sub-flow matches no row for the key read
KeyMisses(at, input, d) ==
    CASE at = "view_subjects_by_student" ->
           \A i \in 1..Len(d.StudentCourse) :
              d.StudentCourse[i].student_id # strip(upper(input[1]))
      [] at = "list_reviews_by_student" ->
           \A i \in 1..Len(d.Review) :
              d.Review[i].student_id # strip(upper(input[1]))
      [] at = "list_courses_by_teacher" ->
           \A i \in 1..Len(d.Course) :
              d.Course[i].teacher_id # strip(upper(input[1]))
      [] at = "lookup_address_by_name" ->
           \A i \in 1..Len(d.Student) :
              \/ d.Student[i].first_name # strip(capitalize(input[1]))
              \/ d.Student[i].last_name # strip(capitalize(input[2]))

\* the answer is the letter B in either case, blanks around it ignored
AnswersB(answer) ==
    \E i \in 1..Len(answer) :
       /\ answer[i] \in {"B", "b"}
       /\ \A j \in 1..Len(answer) : j # i => answer[j] = " "

\* C7: in a keyed sub-flow a key that matches nothing raises nothing, offers no
\* export and writes no file, and leads to the go-back question; there the
\* answer B returns to the main menu and any other answer leads to the key
\* prompt of the same sub-flow again.
C7_MissThenGoBack ==
    /\ [][ (pc \in KeyedFlows /\ KeyMisses(pc, out'.input, db)) =>
             /\ pc' = "go_back_to_menu"
             /\ flow' = pc
             /\ out'.raised = "none"
             /\ data' = NoData
             /\ NothingWritten ]_vars
    /\ [][ pc = "go_back_to_menu" =>
             /\ flow \in KeyedFlows
             /\ out'.raised = "none"
             /\ NothingWritten
             /\ data' = NoData
             /\ IF AnswersB(out'.input[1]) THEN pc' = "menu" ELSE pc' = flow ]_vars

C7_Witness ==
    /\ out.at = "go_back_to_menu"
    /\ out.input = << <<" ","b"," ">> >>
    /\ pc = "menu"

\* C8: at the main menu an entry that is no integer, or an integer outside
\* 1..8, is reported and the menu is shown again; no query is run, no file is
\* written, the connection stays open and nothing else changes.
C8_BadMenuInput ==
    [][ (pc = "menu" /\ (~int_parse(out'.input[1]).ok
                         \/ int_parse(out'.input[1]).val \notin 1..8)) =>
          /\ pc' = "menu"
          /\ out'.msg \in {"Invalid input. Please enter a valid number.",
                           "Invalid option. Please select a number between 1 and 8."}
          /\ (out'.msg = "Invalid input. Please enter a valid number.")
               <=> ~int_parse(out'.input[1]).ok
          /\ out'.queries = 0
          /\ NothingWritten
          /\ conn = "open" /\ conn' = "open"
          /\ UNCHANGED <<ret, flow, db, data, exitStatus>> ]_vars

C8_Witness ==
    /\ out.at = "menu"
    /\ out.input = << <<"9">> >>
    /\ out.msg = "Invalid option. Please select a number between 1 and 8."
    /\ pc = "menu"
    /\ nWrites = 1

\* C9: a failed connection or a missing bootstrap script is reported and ends
\* the process with status 1 at once, with no query run; the menu and the
\* lookups are only ever reached with the connection open and nothing raised
\* at start-up.
C9_StartupFailureIsFatal ==
    /\ out.raised \in {"sqlite3.Error", "FileNotFoundError"} =>
         /\ out.at \in {"connect_to_db", "initialize_db"}
         /\ pc = "exited"
         /\ exitStatus = 1
         /\ out.queries = 0
         /\ files = <<>>
         /\ out.msg \in {"Error occurred while connecting to the database",
                         "Error: SQL script file 'create_database.sql' not found."}
    /\ pc \in {"initialize_db", "menu", "go_back_to_menu", "offer_to_store",
               "filename_prompt"} \cup Lookups => conn = "open"
    /\ pc \in {"connect_to_db", "initialize_db"} => out.queries = 0 /\ out.at # "menu"

C9_Witness ==
    /\ pc = "exited"
    /\ exitStatus = 1
    /\ out.raised = "FileNotFoundError"
    /\ conn = "open"

\* C10: selecting 8 at the main menu leads to exit_program, which closes the
\* connection before the process ends with status 0; the connection is closed
\* whenever the process has ended with status 0, and once it is closed no
\* query is run and it stays closed.
C10_CloseThenExit ==
    /\ [][ (pc = "menu" /\ int_parse(out'.input[1]).ok
              /\ int_parse(out'.input[1]).val = 8) => pc' = "exit_program" ]_vars
    /\ [][ pc = "exit_program" =>
             conn = "open" /\ conn' = "closed" /\ exitStatus' = -1 ]_vars
    /\ [][ exitStatus' = 0 => conn = "closed" /\ conn' = "closed" /\ pc' = "exited" ]_vars
    /\ [][ conn = "closed" => conn' = "closed" /\ out'.queries = 0 /\ exitStatus' = 0 ]_vars

C10_Witness ==
    /\ pc = "exited"
    /\ exitStatus = 0
    /\ conn = "closed"
    /\ out.at = "sys_exit"

\* the enrollments (by position) that are complete with a mark of 30 or below
\* and whose student has a row
CompletedLow(d) ==
    {i \in 1..Len(d.StudentCourse) :
        /\ d.StudentCourse[i].is_complete = 1
        /\ d.StudentCourse[i].mark <= 30
        /\ \E j \in 1..Len(d.Student) :
              d.Student[j].student_id = d.StudentCourse[i].student_id}

\* C11: the result of list_students_with_low_marks holds exactly the
\* enrollments that are complete with a mark of 30 or below: one record per
\* such enrollment, and no record for an enrollment that is not complete.
C11_LowMarksOnlyCompleted ==
    (out.at = "list_students_with_low_marks" /\ pc = "offer_to_store") =>
       /\ Len(data.items) = Cardinality(CompletedLow(db))
       /\ \A k \in 1..Len(data.items) :
            \E i \in CompletedLow(db) :
               /\ data.items[k].fields[1] = KV("student_id", StrV(db.StudentCourse[i].student_id))
               /\ data.items[k].fields[2] = KV("course_code", StrV(db.StudentCourse[i].course_code))
               /\ data.items[k].fields[7] = KV("mark", IntV(db.StudentCourse[i].mark))


\* C12: from the first showing of the menu on, no step changes the contents of
\* the tables Student, Course, StudentCourse, Address and Review, whatever the
\* operator selects and enters.
C12_LookupsReadOnly ==
    [][ pc \notin {"connect_to_db", "initialize_db"} =>
          /\ db'.Student = db.Student
          /\ db'.Course = db.Course
          /\ db'.StudentCourse = db.StudentCourse
          /\ db'.Address = db.Address
          /\ db'.Review = db.Review ]_vars

C12_Witness ==
    /\ out.at = "filename_prompt"
    /\ out.wrote
    /\ pc = "menu"
    /\ nWrites = 1
    /\ db = FullDatabase

\* C13: every step of offer_to_store writes at most one file; from the save
\* question it stays there, goes to the filename prompt on 1, or returns on 2,
\* all without a write; from the filename prompt it either stays at the
\* filename prompt without a write or returns having written exactly one file.
C13_OneFileTwoReturns ==
    /\ [][ pc = "offer_to_store" =>
             /\ NothingWritten
             /\ \/ pc' = "offer_to_store"
                \/ pc' = "filename_prompt" /\ int_parse(out'.input[1]).val = 1
                \/ pc' = ret /\ int_parse(out'.input[1]).val = 2 ]_vars
    /\ [][ pc = "filename_prompt" =>
             \/ pc' = "filename_prompt" /\ NothingWritten
             \/ pc' = ret /\ out'.wrote /\ nWrites' = nWrites + 1 ]_vars

====
